---- MODULE Spec2Model ----
(***************************************************************************)
(* A state-machine model of GistAgent (src/gist/gist_agent.py): the        *)
(* pagination loop of process_document, the summarizer, the two-stage      *)
(* recall of answer and the metrics kept by _run_llm; and of the report    *)
(* generator (src/search-agent/main.py): its five phases and the citation  *)
(* pass of create_final_report.  The two programs share no state: a step   *)
(* of one leaves the variables of the other unchanged.                     *)
(*                                                                         *)
(* Texts.  A generated text (what the endpoint returns) is a sequence of   *)
(* lexical tokens: digits, brackets, commas, blanks and newlines are       *)
(* one-character tokens, a word is one token.  A paragraph of the document *)
(* is a record [doc, idx, words]: the document it comes from (named by the *)
(* number of pages the store held when the document was fetched, so two    *)
(* documents in one store never share a name), its position in that        *)
(* document and the number of words str.split() finds in it.  A            *)
(* string that may hold either kind of content (an entry of the expanded   *)
(* article) is a record [gen, doc] with one of the two channels empty.     *)
(***************************************************************************)
EXTENDS Integers, Sequences, FiniteSets, TLC

VARIABLES
    pc,                        \* position of the caller: "idle", "paginate", "summarize", "lookup", "synthesis"
    title,                     \* self.title
    pages,                     \* self.pages: sequence of pages, a page is a sequence of paragraphs
    shortened_pages,           \* self.shortened_pages: sequence of summary texts
    llm_metrics,               \* self.llm_metrics
    paragraphs,                \* process_document: the paragraphs fetched by the running/last call
    pause_point,               \* process_document: the cursor
    last_break,                \* _get_next_page_break: start, response and result of the call of this iteration
    intermediate_response,     \* answer: the lookup response
    page_ids,                  \* answer: the parsed, validated page indices (a list)
    expanded_shortened_pages,  \* answer: the expanded context
    output,                    \* what the last finished operation reported to its caller
    endpoint_calls,            \* invocations of chat.completions.create (failed ones included) made by
                               \* the running or last operation
    questions,                 \* number of questions put to answer on a processed document so far
    call_log,                  \* the invocations of chat.completions.create made by the running or last
                               \* operation, in order: the stage that made each and what its prompt held
    last_response,             \* what the latest of these invocations produced
    tally,                     \* what the endpoint reported over all its invocations on this agent
    phase,                     \* main: the phase about to run, or how main ended
    files,                     \* the working directory: what each file of the pipeline holds
    console,                   \* what the pipeline printed, in order
    research_brief,            \* main: the result of run_phase_1
    articles,                  \* main: the summaries returned by run_research_tasks
    outline,                   \* main: the result of create_report_outline
    markdown_report            \* main: the result of write_report_from_outline

\* the state of the GistAgent and of its caller
agent == <<pc, title, pages, shortened_pages, llm_metrics, paragraphs, pause_point,
           last_break, intermediate_response, page_ids, expanded_shortened_pages,
           output, endpoint_calls, questions, call_log, last_response, tally>>

\* the state of the report generator
pipeline == <<phase, files, console, research_brief, articles, outline, markdown_report>>

vars == <<agent, pipeline>>

docState == <<title, pages, shortened_pages>>
answerLocals == <<intermediate_response, page_ids, expanded_shortened_pages>>
processLocals == <<paragraphs, pause_point, last_break>>
callRecord == <<call_log, last_response, tally>>

-----------------------------------------------------------------------------
(* Bounds of the model.                                                    *)

\* longest document explored, in paragraphs
MaxParas == 3
\* questions asked of one agent
MaxQuestions == 1
\* pages of the long document that recall is explored on
RecallPages == 7

\* word counts a paragraph is drawn from
WordCounts == {100, 300, 650}

-----------------------------------------------------------------------------
(* Program constants.                                                      *)

word_limit == 600
start_threshold == 280
min_page_words == 350

\* Python's None where an int is expected (_parse_pause_point finds no label)
NoInt == -1
\* Python's None where a str is expected (no title)
None == "<None>"

-----------------------------------------------------------------------------
(* Lexical helpers: the character classes the regular expressions use.     *)

Digits == <<"0", "1", "2", "3", "4", "5", "6", "7", "8", "9">>

IsDigit(c) == \E k \in 1..10 : Digits[k] = c

DigitVal(c) == (CHOOSE k \in 1..10 : Digits[k] = c) - 1

IsSpace(c) == c \in {" ", "\n"}

\* int(s) for a non-empty string of decimal digits
RECURSIVE ToInt(_)
ToInt(ds) ==
    IF ds = <<>> THEN 0
    ELSE 10 * ToInt(SubSeq(ds, 1, Len(ds) - 1)) + DigitVal(ds[Len(ds)])

\* str(n) for n >= 0
RECURSIVE ToStr(_)
ToStr(n) ==
    IF n < 10 THEN <<Digits[n + 1]>>
    ELSE ToStr(n \div 10) \o <<Digits[(n % 10) + 1]>>

\* s.strip()
RECURSIVE LStrip(_)
LStrip(s) == IF s # <<>> /\ IsSpace(s[1]) THEN LStrip(Tail(s)) ELSE s

RECURSIVE RStrip(_)
RStrip(s) ==
    IF s # <<>> /\ IsSpace(s[Len(s)]) THEN RStrip(SubSeq(s, 1, Len(s) - 1)) ELSE s

\* mutant: only the leading whitespace is removed
Strip_LeftOnly(s) == LStrip(s)

Strip(s) == RStrip(LStrip(s))

\* the two kinds of string content
GenText(s) == [gen |-> s, doc |-> <<>>]
DocText(ps) == [gen |-> <<>>, doc |-> ps]

\* '\n'.join(page)
JoinPage(page) == DocText(page)

\* len(paragraph.split())
WordCount(p) == p.words

-----------------------------------------------------------------------------
(* The inference endpoint: what one call of chat.completions.create may    *)
(* produce.  ok = FALSE is an exception raised by the call.                *)

\* the usage block: missing names the field the block lacks, "" when it is whole
Usage(p, c, t) ==
    [present |-> TRUE, missing |-> "", prompt_tokens |-> p, completion_tokens |-> c,
     total_tokens |-> t]
NoUsage ==
    [present |-> FALSE, missing |-> "", prompt_tokens |-> 0, completion_tokens |-> 0,
     total_tokens |-> 0]
UsageWithout(field, p, c, t) == [Usage(p, c, t) EXCEPT !.missing = field]

\* the time_info block: missing tells that it lacks completion_time
TimeInfo(t) == [present |-> TRUE, missing |-> FALSE, completion_time |-> t]
NoTimeInfo == [present |-> FALSE, missing |-> FALSE, completion_time |-> 0]
TimeInfoWithout == [present |-> TRUE, missing |-> TRUE, completion_time |-> 0]

Failure == [ok |-> FALSE, text |-> <<>>, usage |-> NoUsage, time_info |-> NoTimeInfo, delta |-> 0]
Reply(text) == [ok |-> TRUE, text |-> text, usage |-> Usage(10, 5, 15), time_info |-> TimeInfo(2), delta |-> 3]

-----------------------------------------------------------------------------
(* Metrics.                                                                *)

_get_initial_metrics ==
    [llm_calls |-> 0, completion_time |-> 0, prompt_tokens |-> 0,
     response_tokens |-> 0, total_tokens |-> 0,
     avg_tokens_per_second |-> [num |-> 0, den |-> 1]]

\* mutant: the average is taken over all tokens, prompt included
RecomputeAverage_TotalTokens(m) ==
    IF m.completion_time > 0 /\ m.response_tokens > 0
    THEN [m EXCEPT !.avg_tokens_per_second =
                       [num |-> m.total_tokens, den |-> m.completion_time]]
    ELSE m

\* the last statement of _update_llm_metrics: avg_tokens_per_second is the
\* exact quotient num / den
RecomputeAverage(m) ==
    IF m.completion_time > 0 /\ m.response_tokens > 0
    THEN [m EXCEPT !.avg_tokens_per_second =
                       [num |-> m.response_tokens, den |-> m.completion_time]]
    ELSE m

\* _update_llm_metrics: the metrics it leaves and whether it raised.  Reading
\* a field the block lacks raises at that statement: the statements before it
\* have taken effect, those after it have not.
_update_llm_metrics(m, response) ==
    IF response.time_info.present /\ response.time_info.missing
    THEN [metrics |-> m, raised |-> TRUE]
    ELSE LET time_taken == IF response.time_info.present
                           THEN response.time_info.completion_time
                           ELSE response.delta
             m1 == [m EXCEPT !.llm_calls = @ + 1, !.completion_time = @ + time_taken]
             u == response.usage
             m2 == [m1 EXCEPT !.prompt_tokens = @ + u.prompt_tokens]
             m3 == [m2 EXCEPT !.response_tokens = @ + u.completion_tokens]
             m4 == [m3 EXCEPT !.total_tokens = @ + u.total_tokens]
         IN  IF ~u.present THEN [metrics |-> RecomputeAverage(m1), raised |-> FALSE]
             ELSE IF u.missing = "prompt_tokens" THEN [metrics |-> m1, raised |-> TRUE]
             ELSE IF u.missing = "completion_tokens" THEN [metrics |-> m2, raised |-> TRUE]
             ELSE IF u.missing = "total_tokens" THEN [metrics |-> m3, raised |-> TRUE]
             ELSE [metrics |-> RecomputeAverage(m4), raised |-> FALSE]

\* mutant: a call that raised is counted as a call
RunLlmMetrics_CountsFailures(m, response) ==
    IF response.ok THEN _update_llm_metrics(m, response).metrics
    ELSE [m EXCEPT !.llm_calls = @ + 1]

\* _run_llm (stream = False): the metrics after the call
RunLlmMetrics(m, response) ==
    IF response.ok THEN _update_llm_metrics(m, response).metrics ELSE m

\* _run_llm: is the value returned to the caller a string (not None); an
\* exception raised inside the try block, by the endpoint or by the
\* recording, makes it None
RunLlmIsText(response) ==
    response.ok /\ ~_update_llm_metrics(_get_initial_metrics, response).raised

\* _run_llm: the string returned when one is
RunLlmText(response) == response.text

\* Python truthiness of the value _run_llm returns: None and "" are false
Truthy(response) == RunLlmIsText(response) /\ RunLlmText(response) # <<>>

\* an entry of call_log: the stage that called, and the page (pagination:
\* the passage, summarization: the page) or the context (lookup: the
\* summaries, synthesis: the expanded context) its prompt was built from
Call(kind, page, context) == [kind |-> kind, page |-> page, context |-> context]

\* what the endpoint reported so far: the invocations it answered, the
\* sums of the values of the whole usage blocks, and whether every block it
\* sent was whole
NoTally ==
    [returned |-> 0, prompt_tokens |-> 0, completion_tokens |-> 0, total_tokens |-> 0,
     whole |-> TRUE]

Tally(t, response) ==
    IF ~response.ok THEN t
    ELSE IF response.usage.missing # "" \/ response.time_info.missing
    THEN [t EXCEPT !.returned = @ + 1, !.whole = FALSE]
    ELSE [t EXCEPT !.returned = @ + 1,
                   !.prompt_tokens = @ + response.usage.prompt_tokens,
                   !.completion_tokens = @ + response.usage.completion_tokens,
                   !.total_tokens = @ + response.usage.total_tokens]

\* _run_llm: one invocation of the endpoint, made after the invocations of
\* earlier, and what it leaves behind
_run_llm(earlier, call, response) ==
    /\ llm_metrics' = RunLlmMetrics(llm_metrics, response)
    /\ call_log' = Append(earlier, call)
    /\ endpoint_calls' = Len(earlier) + 1
    /\ last_response' = response
    /\ tally' = Tally(tally, response)

\* an operation begins: it has made no invocation yet
NoCalls ==
    /\ call_log' = <<>>
    /\ endpoint_calls' = 0
    /\ last_response' = Failure

-----------------------------------------------------------------------------
(* Pagination: _get_next_page_break and _parse_pause_point.                *)

\* mutant: the window grows while the count is at most the limit
RECURSIVE WindowLoop_PastLimit(_, _, _, _)
WindowLoop_PastLimit(ps, j, wcount, labels) ==
    IF wcount <= word_limit /\ j < Len(ps)
    THEN LET w == wcount + WordCount(ps[j + 1])
         IN  WindowLoop_PastLimit(ps, j + 1, w,
                                  IF w >= start_threshold THEN Append(labels, j) ELSE labels)
    ELSE [j |-> j, wcount |-> wcount, labels |-> Append(labels, j)]

\* mutant: the threshold is tested on the words gathered before the paragraph
RECURSIVE WindowLoop_LabelsAfterThreshold(_, _, _, _)
WindowLoop_LabelsAfterThreshold(ps, j, wcount, labels) ==
    IF wcount < word_limit /\ j < Len(ps)
    THEN WindowLoop_LabelsAfterThreshold(
             ps, j + 1, wcount + WordCount(ps[j + 1]),
             IF wcount >= start_threshold THEN Append(labels, j) ELSE labels)
    ELSE [j |-> j, wcount |-> wcount, labels |-> Append(labels, j)]

\* the window loop: j is the 0-based index of the next paragraph to append,
\* labels the numbers of the labels put into the passage so far
RECURSIVE WindowLoop(_, _, _, _)
WindowLoop(ps, j, wcount, labels) ==
    IF wcount < word_limit /\ j < Len(ps)
    THEN LET w == wcount + WordCount(ps[j + 1])
         IN  WindowLoop(ps, j + 1, w,
                        IF w >= start_threshold THEN Append(labels, j) ELSE labels)
    ELSE [j |-> j, wcount |-> wcount, labels |-> Append(labels, j)]

\* the window built from paragraph i (0-based): its end j, its word count and its labels
Window(ps, i) == WindowLoop(ps, i + 1, WordCount(ps[i + 1]), <<>>)

\* mutant: the short-tail rule tests the label threshold instead of the 350 words
ShortTail_WrongThreshold(ps, i) == Window(ps, i).wcount < start_threshold

\* the short-tail rule: no inference call is made and len(paragraphs) is returned
ShortTail(ps, i) == Window(ps, i).wcount < min_page_words

\* index after the run of digits that starts at k
RECURSIVE DigitsEnd(_, _)
DigitsEnd(s, k) == IF k <= Len(s) /\ IsDigit(s[k]) THEN DigitsEnd(s, k + 1) ELSE k

\* does <(\d+)> match at position k
LabelAt(s, k) ==
    /\ s[k] = "<"
    /\ DigitsEnd(s, k + 1) > k + 1
    /\ DigitsEnd(s, k + 1) <= Len(s)
    /\ s[DigitsEnd(s, k + 1)] = ">"

\* re.search(r"<(\d+)>", text) from position k on, and int() of its group
RECURSIVE SearchLabel(_, _)
SearchLabel(s, k) ==
    IF k > Len(s) THEN NoInt
    ELSE IF LabelAt(s, k) THEN ToInt(SubSeq(s, k + 1, DigitsEnd(s, k + 1) - 1))
    ELSE SearchLabel(s, k + 1)

\* mutant: the last label of the response is taken instead of the first
RECURSIVE SearchLastLabel(_, _)
SearchLastLabel(s, k) ==
    IF k < 1 THEN NoInt
    ELSE IF LabelAt(s, k) THEN ToInt(SubSeq(s, k + 1, DigitsEnd(s, k + 1) - 1))
    ELSE SearchLastLabel(s, k - 1)

_parse_pause_point_Last(text) == SearchLastLabel(text, Len(text))

_parse_pause_point(text) == SearchLabel(text, 1)

\* mutant: a pause point equal to the start index is accepted
AcceptPausePoint_AtStart(pause_point_, i, j) ==
    /\ pause_point_ # NoInt
    /\ pause_point_ # 0
    /\ pause_point_ >= i
    /\ pause_point_ <= j

\* mutant: the paragraph right after the start index is not accepted as a break
AcceptPausePoint_SkipsNext(pause_point_, i, j) ==
    /\ pause_point_ # NoInt
    /\ pause_point_ # 0
    /\ pause_point_ > i + 1
    /\ pause_point_ <= j

\* is the parsed pause point accepted: "pause_point and (pause_point > i and pause_point <= j)"
AcceptPausePoint(pause_point_, i, j) ==
    /\ pause_point_ # NoInt
    /\ pause_point_ # 0
    /\ pause_point_ > i
    /\ pause_point_ <= j

\* mutant: the fallback returns the index of the last paragraph of the window
BreakAfterCall_FallbackShort(ps, i, response) ==
    LET j == Window(ps, i).j
    IN  IF Truthy(response) /\ AcceptPausePoint(_parse_pause_point(RunLlmText(response)), i, j)
        THEN _parse_pause_point(RunLlmText(response))
        ELSE j - 1

\* the value _get_next_page_break returns once the window holds enough words,
\* given what the inference call produced
BreakAfterCall(ps, i, response) ==
    LET j == Window(ps, i).j
    IN  IF Truthy(response) /\ AcceptPausePoint(_parse_pause_point(RunLlmText(response)), i, j)
        THEN _parse_pause_point(RunLlmText(response))
        ELSE j

\* the value _get_next_page_break returns under the short-tail rule
BreakShortTail(ps, i) == Len(ps)

\* paragraphs[a:b], for 0 <= a: a slice end past the list is cut to its length
Slice(ps, a, b) == SubSeq(ps, a + 1, IF b > Len(ps) THEN Len(ps) ELSE b)

-----------------------------------------------------------------------------
(* Summaries: _create_summary and _post_process_summary.                   *)

\* text.lower(), token by token
Lower(t) ==
    CASE t = "Here" -> "here"
      [] t = "Shortened" -> "shortened"
      [] OTHER -> t

\* a token made of the characters [a-z ] only
IsLowerWord(t) == t \in {" ", "here", "is", "a", "the", "shortened", "version", "gist"}

\* [a-z ]+ from position k on: the index after the run
RECURSIVE LowerRunEnd(_, _)
LowerRunEnd(s, k) ==
    IF k <= Len(s) /\ IsLowerWord(Lower(s[k])) THEN LowerRunEnd(s, k + 1) ELSE k

\* length of the match of (here[a-z ]+ shortened.*?:) at the start of text.lower(),
\* 0 when there is none: "here", then a run of [a-z ] that ends in " shortened",
\* then the first ":" with no newline before it
PreambleLen(s) ==
    IF Len(s) < 2 \/ Lower(s[1]) # "here" THEN 0
    ELSE LET e == LowerRunEnd(s, 2)
             \* positions q (of "shortened") the run can back off to
             cands == {q \in 4..(e - 1) : Lower(s[q]) = "shortened" /\ s[q - 1] = " "}
             colons == {c \in 1..Len(s) : s[c] = ":"}
             ends == {c \in colons : \E q \in cands :
                         /\ c > q
                         /\ \A x \in (q + 1)..(c - 1) : s[x] \notin {":", "\n"}}
         IN  IF ends = {} THEN 0 ELSE CHOOSE c \in ends : \A d \in ends : c <= d

_post_process_summary(text) ==
    IF PreambleLen(text) > 0
    THEN Strip(SubSeq(text, PreambleLen(text) + 1, Len(text)))
    ELSE text

FailedSummary == <<"Failed", " ", "to", " ", "generate", " ", "summary", ".">>

\* _create_summary: the summary text, given what the inference call produced
_create_summary(response) ==
    IF Truthy(response)
    THEN GenText(_post_process_summary(Strip(RunLlmText(response))))
    ELSE GenText(FailedSummary)

-----------------------------------------------------------------------------
(* What the collaborators may supply.                                      *)

\* the documents the Text Source Adapter may return: up to MaxParas paragraphs
WordSeqs == UNION {[1..n -> WordCounts] : n \in 0..MaxParas}

MakeDoc(d, ws) == [k \in 1..Len(ws) |-> [doc |-> d, idx |-> k - 1, words |-> ws[k]]]

\* the titles get_title_from_html may return: None, "" and a proper title
Titles == {None, "", "Title"}

\* "not self.title"
NoTitle(t) == t = None \/ t = ""

Lbl(n) == <<"<">> \o ToStr(n) \o <<">">>

\* responses to the pagination prompt
BreakReplies ==
    {Failure, Reply(<<>>), Reply(<<"no", " ", "label">>),
     Reply(<<"<", ">", " ">> \o Lbl(2)),
     Reply(Lbl(12) \o Lbl(1)),
     Reply(Lbl(1) \o Lbl(2))}
    \cup {Reply(<<"Break", " ", "point", ":", " ">> \o Lbl(n) \o <<"\n", "Because">>) :
              n \in 0..(MaxParas + 1)}

\* responses to the shorten prompt
SummaryReplies ==
    {Failure, Reply(<<"gist">>),
     Reply(<<"Here", " ", "is", " ", "the", " ", "shortened", " ", "version", ":", " ", "gist", "\n">>)}

-----------------------------------------------------------------------------
(* process_document.                                                       *)

Idle == [msg |-> "", text |-> <<>>]
Report(m) == [msg |-> m, text |-> <<>>]
NoBreak ==
    [called |-> FALSE, start |-> NoInt, labels |-> <<>>, response |-> Failure, ret |-> NoInt]

\* where the loop "while pause_point < total_paragraphs" goes next
LoopHead(point, total) == IF point < total THEN "paginate" ELSE "idle"

\* get_ar5iv_link or get_html_page raises: the exception leaves the agent as it was.
\* reuse tells whether the caller also processes a document on an agent that
\* already holds pages
ProcessFetchFails(reuse) ==
    /\ pc = "idle"
    /\ reuse \/ pages = <<>>
    /\ output' = Report("SourceUnavailable")
    /\ NoCalls
    /\ UNCHANGED <<pc, docState, llm_metrics, processLocals, answerLocals, questions, tally>>

\* mutant: the missing title is noticed only after the document was paginated
ProcessNoTitle_ChecksLate(reuse) ==
    /\ pc = "idle"
    /\ reuse \/ pages = <<>>
    /\ \E t \in Titles, ws \in {w \in WordSeqs : Len(w) = 1} :
        /\ NoTitle(t)
        /\ title' = t
        /\ paragraphs' = MakeDoc(Len(pages), ws)
        /\ pc' = "paginate"
        /\ output' = Idle
    /\ pause_point' = 0
    /\ last_break' = NoBreak
    /\ NoCalls
    /\ UNCHANGED <<pages, shortened_pages, llm_metrics, answerLocals, questions, tally>>

\* the title is missing: self.title is overwritten and the call returns
ProcessNoTitle(reuse) ==
    /\ pc = "idle"
    /\ reuse \/ pages = <<>>
    /\ \E t \in Titles :
        /\ NoTitle(t)
        /\ title' = t
    /\ output' = Report("NoTitle")
    /\ NoCalls
    /\ UNCHANGED <<pc, pages, shortened_pages, llm_metrics, processLocals, answerLocals,
                   questions, tally>>

\* title and paragraphs are fetched and the loop is entered; docs are the
\* documents the source may hold
ProcessStart(docs, reuse) ==
    /\ pc = "idle"
    /\ reuse \/ pages = <<>>
    /\ \E t \in Titles, ws \in docs :
        /\ ~NoTitle(t)
        /\ title' = t
        /\ paragraphs' = MakeDoc(Len(pages), ws)
        /\ pc' = LoopHead(0, Len(ws))
        /\ output' = IF Len(ws) = 0 THEN Report("Complete") ELSE Idle
    /\ pause_point' = 0
    /\ last_break' = NoBreak
    /\ NoCalls
    /\ UNCHANGED <<pages, shortened_pages, llm_metrics, answerLocals, questions, tally>>

\* first half of an iteration: _get_next_page_break, then the page is sliced out and appended
PageBreakStep(replies) ==
    /\ pc = "paginate"
    /\ IF ShortTail(paragraphs, pause_point)
       THEN /\ last_break' = [called |-> FALSE, start |-> pause_point,
                              labels |-> Window(paragraphs, pause_point).labels,
                              response |-> Failure,
                              ret |-> BreakShortTail(paragraphs, pause_point)]
            /\ UNCHANGED <<llm_metrics, endpoint_calls, callRecord>>
       ELSE \E r \in replies :
            /\ last_break' = [called |-> TRUE, start |-> pause_point,
                              labels |-> Window(paragraphs, pause_point).labels,
                              response |-> r,
                              ret |-> BreakAfterCall(paragraphs, pause_point, r)]
            /\ _run_llm(call_log,
                        Call("pagination",
                             Slice(paragraphs, pause_point, Window(paragraphs, pause_point).j),
                             <<>>),
                        r)
    /\ pages' = Append(pages, Slice(paragraphs, pause_point, last_break'.ret))
    /\ pc' = "summarize"
    /\ UNCHANGED <<title, shortened_pages, paragraphs, pause_point, answerLocals, output,
                   questions>>

\* mutant: a failed summarization call ends process_document
SummaryStep_AbortsOnFailure(replies) ==
    /\ pc = "summarize"
    /\ \E r \in replies :
        /\ shortened_pages' = Append(shortened_pages, _create_summary(r))
        /\ _run_llm(call_log, Call("summarization", pages[Len(pages)], <<>>), r)
        /\ pc' = IF Truthy(r) THEN LoopHead(last_break.ret, Len(paragraphs)) ELSE "idle"
    /\ pause_point' = last_break.ret
    /\ output' = IF pc' = "idle" THEN Report("Complete") ELSE output
    /\ last_break' = NoBreak
    /\ UNCHANGED <<title, pages, paragraphs, answerLocals, questions>>

\* mutant: a summarization call that gave nothing is issued once more
SummaryStep_RetriesOnce(replies) ==
    /\ pc = "summarize"
    /\ \E r \in replies :
        /\ _run_llm(call_log, Call("summarization", pages[Len(pages)], <<>>), r)
        /\ IF ~Truthy(r) /\ (call_log = <<>> \/ call_log[Len(call_log)].kind = "pagination")
           THEN UNCHANGED <<pc, shortened_pages, pause_point, output, last_break>>
           ELSE /\ shortened_pages' = Append(shortened_pages, _create_summary(r))
                /\ pause_point' = last_break.ret
                /\ pc' = LoopHead(last_break.ret, Len(paragraphs))
                /\ output' = IF pc' = "idle" THEN Report("Complete") ELSE output
                /\ last_break' = NoBreak
    /\ UNCHANGED <<title, pages, paragraphs, answerLocals, questions>>

\* mutant: the summary is made of the whole window, not of the page cut from it
SummaryStep_OfWindow(replies) ==
    /\ pc = "summarize"
    /\ \E r \in replies :
        /\ shortened_pages' = Append(shortened_pages, _create_summary(r))
        /\ _run_llm(call_log,
                    Call("summarization",
                         Slice(paragraphs, pause_point, Window(paragraphs, pause_point).j),
                         <<>>),
                    r)
    /\ pause_point' = last_break.ret
    /\ pc' = LoopHead(last_break.ret, Len(paragraphs))
    /\ output' = IF pc' = "idle" THEN Report("Complete") ELSE output
    /\ last_break' = NoBreak
    /\ UNCHANGED <<title, pages, paragraphs, answerLocals, questions>>

\* second half: _create_summary, the summary is appended and the cursor advances
SummaryStep(replies) ==
    /\ pc = "summarize"
    /\ \E r \in replies :
        /\ shortened_pages' = Append(shortened_pages, _create_summary(r))
        /\ _run_llm(call_log, Call("summarization", pages[Len(pages)], <<>>), r)
    /\ pause_point' = last_break.ret
    /\ pc' = LoopHead(last_break.ret, Len(paragraphs))
    /\ output' = IF pc' = "idle" THEN Report("Complete") ELSE output
    /\ last_break' = NoBreak
    /\ UNCHANGED <<title, pages, paragraphs, answerLocals, questions>>

-----------------------------------------------------------------------------
(* answer.                                                                 *)

\* a token of the class [\d,\s]
IsListChar(c) == IsDigit(c) \/ c = "," \/ IsSpace(c)

\* index after the run of [\d,\s] that starts at k
RECURSIVE ListRunEnd(_, _)
ListRunEnd(s, k) == IF k <= Len(s) /\ IsListChar(s[k]) THEN ListRunEnd(s, k + 1) ELSE k

\* does \[([\d,\s]+)\] match at position k
ListAt(s, k) ==
    /\ s[k] = "["
    /\ ListRunEnd(s, k + 1) > k + 1
    /\ ListRunEnd(s, k + 1) <= Len(s)
    /\ s[ListRunEnd(s, k + 1)] = "]"

\* re.search(r'\[([\d,\s]+)\]', text) from position k on: the position of the match, 0 when none
RECURSIVE SearchList(_, _)
SearchList(s, k) ==
    IF k > Len(s) THEN 0
    ELSE IF ListAt(s, k) THEN k
    ELSE SearchList(s, k + 1)

\* match.group(1)
ListGroup(s, k) == SubSeq(s, k + 1, ListRunEnd(s, k + 1) - 1)

\* index of the first "," of s, 0 when none
RECURSIVE FirstComma(_, _)
FirstComma(s, k) ==
    IF k > Len(s) THEN 0
    ELSE IF s[k] = "," THEN k
    ELSE FirstComma(s, k + 1)

\* s.split(',')
RECURSIVE SplitComma(_)
SplitComma(s) ==
    LET c == FirstComma(s, 1)
    IN  IF c = 0 THEN <<s>>
        ELSE <<SubSeq(s, 1, c - 1)>> \o SplitComma(SubSeq(s, c + 1, Len(s)))

\* p.isnumeric()
IsNumeric(p) == p # <<>> /\ \A k \in 1..Len(p) : IsDigit(p[k])

\* mutant: the first index out of range ends the loop
RECURSIVE KeepPageIds_StopAtInvalid(_, _)
KeepPageIds_StopAtInvalid(tokens, npages) ==
    IF tokens = <<>> THEN <<>>
    ELSE LET p == Strip(Head(tokens))
             rest == KeepPageIds_StopAtInvalid(Tail(tokens), npages)
         IN  IF ~IsNumeric(p) THEN rest
             ELSE IF 0 <= ToInt(p) /\ ToInt(p) < npages THEN <<ToInt(p)>> \o rest
             ELSE <<>>

\* the loop over page_ids_str: the indices kept, in order, duplicates included
RECURSIVE KeepPageIds(_, _)
KeepPageIds(tokens, npages) ==
    IF tokens = <<>> THEN <<>>
    ELSE LET p == Strip(Head(tokens))
             rest == KeepPageIds(Tail(tokens), npages)
         IN  IF IsNumeric(p) /\ 0 <= ToInt(p) /\ ToInt(p) < npages
             THEN <<ToInt(p)>> \o rest
             ELSE rest

\* the list page_ids built from the lookup response
ParsePageIds(text, npages) ==
    IF SearchList(text, 1) = 0 THEN <<>>
    ELSE KeepPageIds(SplitComma(ListGroup(text, SearchList(text, 1))), npages)

\* mutant: only the first chosen page is substituted
Substitute_FirstOnly(expanded, ids, pgs) ==
    IF ids = <<>> THEN expanded
    ELSE [expanded EXCEPT ![Head(ids) + 1] = JoinPage(pgs[Head(ids) + 1])]

\* the loop "for page_id in page_ids: expanded[page_id] = '\n'.join(self.pages[page_id])"
RECURSIVE Substitute(_, _, _)
Substitute(expanded, ids, pgs) ==
    IF ids = <<>> THEN expanded
    ELSE Substitute([expanded EXCEPT ![Head(ids) + 1] = JoinPage(pgs[Head(ids) + 1])],
                    Tail(ids), pgs)

\* expanded_shortened_pages: a copy of the summaries with the chosen pages in full
Expand(shortened, pgs, ids) == Substitute(shortened, ids, pgs)

Lst(body) == <<"Page", " ", "[">> \o body \o <<"]", " ", "to">>

\* responses to the lookup prompt
LookupReplies ==
    {Failure, Reply(<<>>), Reply(<<"I", " ", "need", " ", "no", " ", "page">>),
     Reply(<<"[", "]">>),
     Reply(Lst(<<"0">>)),
     Reply(Lst(<<"1", ",", " ", "0">>)),
     Reply(Lst(<<"1", ",", " ", "1", ",", " ", "2", ",", " ", "9", "9">>)),
     Reply(Lst(<<"2">>) \o Lst(<<"0">>)),
     Reply(Lst(<<"x">>) \o Lst(<<"1">>)),
     Reply(Lst(<<" ", ",", "1", " ", "2", ",", "0", ",">>)),
     Reply(Lst(<<"7", ",", "0", "1">>))}

\* responses to the final prompt
AnswerReplies == {Failure, Reply(<<>>), Reply(<<" ", "the", " ", "answer", "\n">>)}

\* the value of intermediate_response: what _run_llm returned
Returned(r) == [is_text |-> RunLlmIsText(r), text |-> RunLlmText(r)]
NoLookup == Returned(Failure)

\* mutant: only None counts as no response ("is None" for "not")
LookupFalsy_NoneOnly(v) == ~v.is_text

\* "not intermediate_response"
LookupFalsy(v) == ~v.is_text \/ v.text = <<>>

\* answer on an agent without pages: the error is reported and nothing else happens
AnswerNotProcessed ==
    /\ pc = "idle"
    /\ pages = <<>>
    /\ output' = Report("NotProcessed")
    /\ NoCalls
    /\ UNCHANGED <<pc, docState, llm_metrics, processLocals, answerLocals, questions, tally>>

\* mutant: the lookup call is made without the check for pages
AnswerLookup_Unchecked(replies) ==
    /\ pc = "idle"
    /\ questions < MaxQuestions
    /\ questions' = questions + 1
    /\ \E r \in replies :
        /\ _run_llm(<<>>, Call("lookup", <<>>, shortened_pages), r)
        /\ intermediate_response' = Returned(r)
    /\ output' = Idle
    /\ pc' = "lookup"
    /\ UNCHANGED <<docState, processLocals, page_ids, expanded_shortened_pages>>

\* the lookup stage: the lookup prompt is built from the summaries and sent
AnswerLookup(replies) ==
    /\ pc = "idle"
    /\ pages # <<>>
    /\ questions < MaxQuestions
    /\ questions' = questions + 1
    /\ \E r \in replies :
        /\ _run_llm(<<>>, Call("lookup", <<>>, shortened_pages), r)
        /\ intermediate_response' = Returned(r)
    /\ output' = Idle
    /\ pc' = "lookup"
    /\ UNCHANGED <<docState, processLocals, page_ids, expanded_shortened_pages>>

\* mutant: the full text is substituted in self.shortened_pages itself, not in a copy
AnswerExpand_InPlace ==
    /\ pc = "lookup"
    /\ IF LookupFalsy(intermediate_response)
       THEN /\ output' = Report("LookupFailed")
            /\ pc' = "idle"
            /\ intermediate_response' = NoLookup
            /\ UNCHANGED <<page_ids, expanded_shortened_pages, shortened_pages>>
       ELSE /\ page_ids' = ParsePageIds(intermediate_response.text, Len(pages))
            /\ expanded_shortened_pages' = Expand(shortened_pages, pages, page_ids')
            /\ shortened_pages' = expanded_shortened_pages'
            /\ pc' = "synthesis"
            /\ UNCHANGED <<output, intermediate_response>>
    /\ UNCHANGED <<title, pages, llm_metrics, processLocals, endpoint_calls, questions,
                   callRecord>>

\* after the lookup call: answer returns when it got nothing, and otherwise
\* parses the page list, builds the expanded context and the final prompt
AnswerExpand ==
    /\ pc = "lookup"
    /\ IF LookupFalsy(intermediate_response)
       THEN /\ output' = Report("LookupFailed")
            /\ pc' = "idle"
            /\ intermediate_response' = NoLookup
            /\ UNCHANGED <<page_ids, expanded_shortened_pages>>
       ELSE /\ page_ids' = ParsePageIds(intermediate_response.text, Len(pages))
            /\ expanded_shortened_pages' = Expand(shortened_pages, pages, page_ids')
            /\ pc' = "synthesis"
            /\ UNCHANGED <<output, intermediate_response>>
    /\ UNCHANGED <<docState, llm_metrics, processLocals, endpoint_calls, questions,
                   callRecord>>

\* mutant: a synthesis call that gave nothing is issued once more
AnswerSynthesis_Retries(replies) ==
    /\ pc = "synthesis"
    /\ \E r \in replies :
        /\ _run_llm(call_log, Call("synthesis", <<>>, expanded_shortened_pages), r)
        /\ IF ~Truthy(r) /\ Len(call_log) < 2
           THEN /\ pc' = "synthesis"
                /\ UNCHANGED <<output, answerLocals>>
           ELSE /\ pc' = "idle"
                /\ output' = IF Truthy(r)
                             THEN [msg |-> "FinalAnswer", text |-> Strip(RunLlmText(r))]
                             ELSE Report("AnswerFailed")
                /\ intermediate_response' = NoLookup
                /\ page_ids' = <<>>
                /\ expanded_shortened_pages' = <<>>
    /\ UNCHANGED <<docState, processLocals, questions>>

\* the synthesis stage: the final call and the report of its result
AnswerSynthesis(replies) ==
    /\ pc = "synthesis"
    /\ \E r \in replies :
        /\ _run_llm(call_log, Call("synthesis", <<>>, expanded_shortened_pages), r)
        /\ output' = IF Truthy(r)
                     THEN [msg |-> "FinalAnswer", text |-> Strip(RunLlmText(r))]
                     ELSE Report("AnswerFailed")
    /\ pc' = "idle"
    /\ intermediate_response' = NoLookup
    /\ page_ids' = <<>>
    /\ expanded_shortened_pages' = <<>>
    /\ UNCHANGED <<docState, processLocals, questions>>

-----------------------------------------------------------------------------
(* The report generator (src/search-agent): data.                          *)
(*                                                                         *)
(* A draft is a sequence of tokens: "[Source " (the opening of a           *)
(* placeholder, blank included), "]", ",", " ", the digits, and words.     *)
(* The final report is a record: its body (tokens), whether the            *)
(* "## References" heading was appended, and the entries of the reference  *)
(* list, each with the number, title and URL its line shows.               *)

\* articles one search task contributes at most (the code asks for 3 results)
MaxResults == 2
\* largest source index a placeholder of a draft names
MaxIndex == 3

FileNames == {"research_brief.json", "search_queries.json", "summarized_articles.json",
              "raw_exa_results.json", "report_outline.json", "draft_report.md",
              "final_report.md"}

\* a file that does not exist, a file holding d
NoFile == [written |-> FALSE, data |-> <<>>]
File(d) == [written |-> TRUE, data |-> d]

\* None where run_phase_1 returns no brief
NoBrief == [initial_topic |-> <<>>, clarifying_questions |-> <<>>, user_answers |-> <<>>]

\* the dict {} and an outline with the four required keys
EmptyDict == [keys |-> {}, sources |-> <<>>]
AnOutline == [keys |-> {"report_title", "introduction", "body_sections", "conclusion"},
              sources |-> <<1, 2>>]

\* what the user may type as the topic
Topics == {<<>>, <<" ">>, <<"ai">>}

\* what the question request may produce: an exception, no question, one question
QuestionReplies == {[raised |-> TRUE, questions |-> <<>>],
                    [raised |-> FALSE, questions |-> <<>>],
                    [raised |-> FALSE, questions |-> <<"q1">>]}

\* what the user may answer to a question
AnswerTexts == {<<"yes">>}

\* how one research task may go: the articles it appended to the summaries
\* and whether it ended in its except clause
TaskOutcomes == [error : BOOLEAN, summarized : 0..MaxResults]

\* the n-th article task t summarized
Article(t, n) == [title |-> <<"title", t, n>>, url |-> <<"url", t, n>>,
                  summary |-> <<"summary", t, n>>]

\* what the outline request may produce
OutlineReplies == {[raised |-> TRUE, outline |-> EmptyDict],
                   [raised |-> FALSE, outline |-> AnOutline]}

\* the items a placeholder may list: the numerals 0..MaxIndex and a word
Items == {ToStr(i) : i \in 0..MaxIndex} \cup {<<"x">>}

\* the text between "[Source " and "]": one item, or two joined by ", "
Groups == Items \cup {a \o <<",", " ">> \o b : a, b \in Items}

Placeholder(g) == <<"[Source ">> \o g \o <<"]">>

\* the drafts the writer may return: no placeholder, one, or two of which
\* the second names one item
Drafts ==
    {<<"w">>}
    \cup {<<"w">> \o Placeholder(g) : g \in Groups}
    \cup {Placeholder(g) \o <<"w">> \o Placeholder(h) : g \in Groups, h \in Items}

\* what the draft request may produce
WriterReplies == {[raised |-> TRUE, text |-> <<>>]}
                 \cup {[raised |-> FALSE, text |-> d] : d \in Drafts}

-----------------------------------------------------------------------------
(* The phase functions.                                                    *)

\* ask_follow_up_questions: the questions, [] after an exception
ask_follow_up_questions(reply) ==
    IF reply.raised
    THEN [value |-> <<>>, printed |-> <<"An error occurred (questions)">>]
    ELSE [value |-> reply.questions, printed |-> <<"Successfully generated questions.">>]

\* the summaries appended by the tasks t .. Len(run), in order
RECURSIVE TaskArticles(_, _)
TaskArticles(run, t) ==
    IF t > Len(run) THEN <<>>
    ELSE [n \in 1..run[t].summarized |-> Article(t, n)] \o TaskArticles(run, t + 1)

\* the error lines printed by the tasks t .. Len(run), in order
RECURSIVE TaskErrors(_, _)
TaskErrors(run, t) ==
    IF t > Len(run) THEN <<>>
    ELSE (IF run[t].error THEN <<"An error occurred (research)">> ELSE <<>>)
         \o TaskErrors(run, t + 1)

\* run_research_tasks: the general task and one task per clarifying
\* question, each in its own try block; run[t] says how task t went
run_research_tasks(brief, run) ==
    [value |-> TaskArticles(run, 1), printed |-> TaskErrors(run, 1)]

\* create_report_outline: the parsed outline, {} after an exception
create_report_outline(summaries, reply) ==
    IF reply.raised
    THEN [value |-> EmptyDict, printed |-> <<"An error occurred (outline)">>]
    ELSE [value |-> reply.outline, printed |-> <<"Successfully generated report outline.">>]

\* write_report_from_outline: the draft, "" after an exception
write_report_from_outline(an_outline, reply) ==
    IF reply.raised
    THEN [value |-> <<>>, printed |-> <<"An error occurred (writer)">>]
    ELSE [value |-> reply.text, printed |-> <<"Successfully generated draft report.">>]

-----------------------------------------------------------------------------
(* create_final_report.                                                    *)

\* index of the first "]" of s at or after k, Len(s) + 1 when none
RECURSIVE GroupEnd(_, _)
GroupEnd(s, k) == IF k > Len(s) \/ s[k] = "]" THEN k ELSE GroupEnd(s, k + 1)

\* does \[Source ([^\]]+)\] match at position k
PlaceholderAt(s, k) ==
    /\ s[k] = "[Source "
    /\ GroupEnd(s, k + 1) > k + 1
    /\ GroupEnd(s, k + 1) <= Len(s)

\* match.group(1)
PlaceholderGroup(s, k) == SubSeq(s, k + 1, GroupEnd(s, k + 1) - 1)

\* re.findall(r"\[Source ([^\]]+)\]", s) from position k on
RECURSIVE FindGroups(_, _)
FindGroups(s, k) ==
    IF k > Len(s) THEN <<>>
    ELSE IF PlaceholderAt(s, k)
    THEN <<PlaceholderGroup(s, k)>> \o FindGroups(s, GroupEnd(s, k + 1) + 1)
    ELSE FindGroups(s, k + 1)

\* does int(s.strip()) raise ValueError for an item of the group (the
\* tokens of a draft hold no sign and no underscore)
GroupRaises(group) ==
    \E n \in 1..Len(SplitComma(group)) : ~IsNumeric(Strip(SplitComma(group)[n]))

\* [int(s.strip()) for s in group.split(',')]
GroupInts(group) ==
    [n \in 1..Len(SplitComma(group)) |-> ToInt(Strip(SplitComma(group)[n]))]

\* the set all_source_indices after the loop over the groups
AllSourceIndices(groups) ==
    UNION {{GroupInts(groups[g])[n] : n \in 1..Len(GroupInts(groups[g]))} :
               g \in 1..Len(groups)}

\* sorted(list(S)) for a set of integers
RECURSIVE SortedSet(_)
SortedSet(S) ==
    IF S = {} THEN <<>>
    ELSE LET m == CHOOSE x \in S : \A y \in S : x <= y
         IN  <<m>> \o SortedSet(S \ {m})

\* x put in its place in the ascending list l
RECURSIVE Insert(_, _)
Insert(x, l) ==
    IF l = <<>> THEN <<x>>
    ELSE IF x <= Head(l) THEN <<x>> \o l
    ELSE <<Head(l)>> \o Insert(x, Tail(l))

\* sorted(l) for a list of integers
RECURSIVE SortedList(_)
SortedList(l) == IF l = <<>> THEN <<>> ELSE Insert(Head(l), SortedList(Tail(l)))

\* {original_index: new_index for new_index, original_index in enumerate(sorted_unique_indices, 1)}
citation_map(sorted_unique_indices) ==
    [i \in {sorted_unique_indices[n] : n \in 1..Len(sorted_unique_indices)} |->
        CHOOSE n \in 1..Len(sorted_unique_indices) : sorted_unique_indices[n] = i]

\* ', '.join(map(str, numbers))
RECURSIVE JoinNumbers(_)
JoinNumbers(numbers) ==
    IF numbers = <<>> THEN <<>>
    ELSE IF Len(numbers) = 1 THEN ToStr(numbers[1])
    ELSE ToStr(numbers[1]) \o <<",", " ">> \o JoinNumbers(Tail(numbers))

\* mutant: the new numbers are written in the order of the placeholder
replace_match_Unsorted(group, cmap) ==
    <<"[">> \o JoinNumbers([n \in 1..Len(GroupInts(group)) |-> cmap[GroupInts(group)[n]]])
            \o <<"]">>

\* replace_match: the text that takes the place of one placeholder
replace_match(group, cmap) ==
    <<"[">> \o JoinNumbers(SortedList([n \in 1..Len(GroupInts(group)) |->
                                          cmap[GroupInts(group)[n]]]))
            \o <<"]">>

\* re.sub(r"\[Source ([^\]]+)\]", replace_match, s) from position k on
RECURSIVE Sub(_, _, _)
Sub(s, k, cmap) ==
    IF k > Len(s) THEN <<>>
    ELSE IF PlaceholderAt(s, k)
    THEN replace_match(PlaceholderGroup(s, k), cmap) \o Sub(s, GroupEnd(s, k + 1) + 1, cmap)
    ELSE <<s[k]>> \o Sub(s, k + 1, cmap)

\* does sources[i] raise IndexError (a Python list index, negative ones
\* counting from the end)
IndexRaises(sources, i) == i >= Len(sources) \/ i < 0 - Len(sources)

\* sources[i]
PyIndex(sources, i) == IF i >= 0 THEN sources[i + 1] ELSE sources[Len(sources) + i + 1]

\* the lines of the reference list, one per entry of sorted_unique_indices
ReferenceList(sorted_unique_indices, cmap, sources) ==
    [n \in 1..Len(sorted_unique_indices) |->
        [number |-> cmap[sorted_unique_indices[n]],
         title |-> PyIndex(sources, sorted_unique_indices[n] - 1).title,
         url |-> PyIndex(sources, sorted_unique_indices[n] - 1).url]]

\* how create_final_report ends: what it printed, whether an exception
\* left it, and the final report when it wrote one
Ended(printed, raised) ==
    [printed |-> <<printed>>, raised |-> raised, saved |-> FALSE, final |-> <<>>]
Saved(printed, final) ==
    [printed |-> <<printed>>, raised |-> FALSE, saved |-> TRUE, final |-> final]

create_final_report(draft_file, sources_file) ==
    IF ~draft_file.written \/ ~sources_file.written
    THEN Ended("Could not find a necessary file", FALSE)
    ELSE LET draft_text == draft_file.data
             sources == sources_file.data
             placeholder_groups == FindGroups(draft_text, 1)
         IN  IF placeholder_groups = <<>>
             THEN Saved("No source placeholders found in the draft. Saving as is.",
                        [body |-> draft_text, heading |-> FALSE, references |-> <<>>])
             ELSE IF \E g \in 1..Len(placeholder_groups) : GroupRaises(placeholder_groups[g])
             THEN Ended("ValueError", TRUE)
             ELSE LET sorted_unique_indices ==
                          SortedSet(AllSourceIndices(placeholder_groups))
                      cmap == citation_map(sorted_unique_indices)
                      final_report_text == Sub(draft_text, 1, cmap)
                  IN  IF \E n \in 1..Len(sorted_unique_indices) :
                              IndexRaises(sources, sorted_unique_indices[n] - 1)
                      THEN Ended("IndexError", TRUE)
                      ELSE Saved("Successfully created final_report.md",
                                 [body |-> final_report_text, heading |-> TRUE,
                                  references |-> ReferenceList(sorted_unique_indices,
                                                               cmap, sources)])

-----------------------------------------------------------------------------
(* main: one action per phase.                                             *)

\* phase 1: the topic, the questions, the answers, research_brief.json;
\* main returns when run_phase_1 gives no brief
run_phase_1(topics, replies) ==
    /\ phase = "interaction"
    /\ \E user_topic \in topics, reply \in replies :
        LET asked == ask_follow_up_questions(reply)
        IN  IF Strip(user_topic) = <<>>
            THEN /\ console' = console \o <<"No topic entered. Exiting.">>
                 /\ research_brief' = NoBrief
                 /\ phase' = "returned"
                 /\ UNCHANGED files
            ELSE IF asked.value = <<>>
            THEN /\ console' = console \o asked.printed
                                       \o <<"Could not generate questions. Exiting.">>
                 /\ research_brief' = NoBrief
                 /\ phase' = "returned"
                 /\ UNCHANGED files
            ELSE \E answers \in [1..Len(asked.value) -> AnswerTexts] :
                 /\ research_brief' = [initial_topic |-> user_topic,
                                       clarifying_questions |-> asked.value,
                                       user_answers |-> answers]
                 /\ files' = [files EXCEPT !["research_brief.json"] = File(research_brief')]
                 /\ console' = console \o asked.printed \o <<"Phase 1 Complete">>
                 /\ phase' = "research"
    /\ UNCHANGED <<articles, outline, markdown_report>>

\* phase 2: the research tasks, then the three files of their results (the
\* content of search_queries.json and raw_exa_results.json is left out)
Phase2Research(outcomes) ==
    /\ phase = "research"
    /\ \E run \in [1..(1 + Len(research_brief.clarifying_questions)) -> outcomes] :
        LET done == run_research_tasks(research_brief, run)
        IN  /\ articles' = done.value
            /\ files' = [files EXCEPT !["search_queries.json"] = File(<<>>),
                                      !["summarized_articles.json"] = File(done.value),
                                      !["raw_exa_results.json"] = File(<<>>)]
            /\ console' = console \o <<"Starting Phase 2">> \o done.printed
                                  \o <<"Phase 2 Complete">>
    /\ phase' = "outline"
    /\ UNCHANGED <<research_brief, outline, markdown_report>>

\* phase 3: the outline and report_outline.json
Phase3Outlining(replies) ==
    /\ phase = "outline"
    /\ \E reply \in replies :
        LET done == create_report_outline(articles, reply)
        IN  /\ outline' = done.value
            /\ files' = [files EXCEPT !["report_outline.json"] = File(done.value)]
            /\ console' = console \o <<"Starting Phase 3">> \o done.printed
                                  \o <<"Phase 3 Complete">>
    /\ phase' = "writing"
    /\ UNCHANGED <<research_brief, articles, markdown_report>>

\* phase 4: the draft and draft_report.md
Phase4Writing(replies) ==
    /\ phase = "writing"
    /\ \E reply \in replies :
        LET done == write_report_from_outline(outline, reply)
        IN  /\ markdown_report' = done.value
            /\ files' = [files EXCEPT !["draft_report.md"] = File(done.value)]
            /\ console' = console \o <<"Starting Phase 4">> \o done.printed
                                  \o <<"Phase 4 Complete">>
    /\ phase' = "citation"
    /\ UNCHANGED <<research_brief, articles, outline>>

\* phase 5: create_final_report on the files of the working directory; an
\* exception that leaves it ends main with a traceback
Phase5Citations ==
    /\ phase = "citation"
    /\ LET done == create_final_report(files["draft_report.md"],
                                       files["summarized_articles.json"])
       IN  /\ files' = IF done.saved
                       THEN [files EXCEPT !["final_report.md"] = File(done.final)]
                       ELSE files
           /\ console' = console \o <<"Starting Phase 5">> \o done.printed
                                 \o (IF done.raised THEN <<"Traceback">>
                                     ELSE <<"Phase 5 Complete", "All Done!">>)
           /\ phase' = IF done.raised THEN "crashed" ELSE "done"
    /\ UNCHANGED <<research_brief, articles, outline, markdown_report>>

-----------------------------------------------------------------------------
(* The agent: any order of process_document and answer calls.              *)

Init ==
    /\ pc = "idle"
    /\ title = ""
    /\ pages = <<>>
    /\ shortened_pages = <<>>
    /\ llm_metrics = _get_initial_metrics
    /\ paragraphs = <<>>
    /\ pause_point = 0
    /\ last_break = NoBreak
    /\ intermediate_response = NoLookup
    /\ page_ids = <<>>
    /\ expanded_shortened_pages = <<>>
    /\ output = Idle
    /\ endpoint_calls = 0
    /\ questions = 0
    /\ call_log = <<>>
    /\ last_response = Failure
    /\ tally = NoTally
    /\ phase = "interaction"
    /\ files = [f \in FileNames |-> NoFile]
    /\ console = <<"Starting the News Report Generator...">>
    /\ research_brief = NoBrief
    /\ articles = <<>>
    /\ outline = EmptyDict
    /\ markdown_report = <<>>

Next ==
    \/ ProcessFetchFails(FALSE) /\ UNCHANGED pipeline
    \/ ProcessNoTitle(FALSE) /\ UNCHANGED pipeline
    \/ ProcessStart(WordSeqs, FALSE) /\ UNCHANGED pipeline
    \/ PageBreakStep(BreakReplies) /\ UNCHANGED pipeline
    \/ SummaryStep(SummaryReplies) /\ UNCHANGED pipeline
    \/ AnswerNotProcessed /\ UNCHANGED pipeline
    \/ AnswerLookup(LookupReplies) /\ UNCHANGED pipeline
    \/ AnswerExpand /\ UNCHANGED pipeline
    \/ AnswerSynthesis(AnswerReplies) /\ UNCHANGED pipeline

Spec == Init /\ [][Next]_vars

\* the concatenation of the pages
RECURSIVE Flatten(_)
Flatten(pgs) == IF pgs = <<>> THEN <<>> ELSE Head(pgs) \o Flatten(Tail(pgs))

\* the processing loop alone, which runs to its end once entered: each step
\* of the synchronous loop is taken when it can be
NextLoop ==
    \/ ProcessFetchFails(FALSE) /\ UNCHANGED pipeline
    \/ ProcessNoTitle(FALSE) /\ UNCHANGED pipeline
    \/ ProcessStart(WordSeqs, FALSE) /\ UNCHANGED pipeline
    \/ PageBreakStep(BreakReplies) /\ UNCHANGED pipeline
    \/ SummaryStep(SummaryReplies) /\ UNCHANGED pipeline

LoopSpec == Init /\ [][NextLoop]_vars
                 /\ WF_vars(PageBreakStep(BreakReplies) /\ UNCHANGED pipeline)
                 /\ WF_vars(SummaryStep(SummaryReplies) /\ UNCHANGED pipeline)

\* process_document called for one document after the other, also on an
\* agent that holds pages; a document is fetched only while the
\* store, with it, stays below MaxParas paragraphs; the responses are a
\* failure, a break after the first or second paragraph, and a plain summary
NextReuse ==
    \/ ProcessFetchFails(TRUE) /\ UNCHANGED pipeline
    \/ ProcessNoTitle(TRUE) /\ UNCHANGED pipeline
    \/ ProcessStart({ws \in WordSeqs : Len(Flatten(pages)) + Len(ws) < MaxParas}, TRUE) /\ UNCHANGED pipeline
    \/ PageBreakStep({Failure, Reply(Lbl(1)), Reply(Lbl(2))}) /\ UNCHANGED pipeline
    \/ SummaryStep({Failure, Reply(<<"gist">>)}) /\ UNCHANGED pipeline

ReuseSpec == Init /\ [][NextReuse]_vars

\* the comma-separated numerals of a .. b
RECURSIVE IndexList(_, _)
IndexList(a, b) ==
    IF a > b THEN <<>>
    ELSE IF a = b THEN ToStr(a)
    ELSE ToStr(a) \o <<",", " ">> \o IndexList(a + 1, b)

\* a document of RecallPages paragraphs, each long enough to be a page of
\* its own, and lookup responses that name all of its pages, six of them, one
RecallDocs == {[k \in 1..RecallPages |-> 650]}

RecallReplies ==
    {Failure,
     Reply(Lst(IndexList(0, RecallPages - 1))),
     Reply(Lst(IndexList(0, 5))),
     Reply(Lst(<<"0">>))}

\* recall on a long document: the document is processed, then questions are asked
NextRecall ==
    \/ ProcessStart(RecallDocs, FALSE) /\ UNCHANGED pipeline
    \/ PageBreakStep({Failure, Reply(Lbl(1))}) /\ UNCHANGED pipeline
    \/ SummaryStep({Failure, Reply(<<"gist">>)}) /\ UNCHANGED pipeline
    \/ AnswerLookup(RecallReplies) /\ UNCHANGED pipeline
    \/ AnswerExpand /\ UNCHANGED pipeline
    \/ AnswerSynthesis({Failure, Reply(<<"the", " ", "answer">>)}) /\ UNCHANGED pipeline

RecallSpec == Init /\ [][NextRecall]_vars

\* the usage and timing data a response may carry: either block absent,
\* whole, or present without one of its fields
Usages ==
    {NoUsage, Usage(10, 5, 15), Usage(20, 15, 35),
     UsageWithout("prompt_tokens", 10, 5, 15),
     UsageWithout("completion_tokens", 10, 5, 15),
     UsageWithout("total_tokens", 10, 5, 15)}

TimeInfos == {NoTimeInfo, TimeInfo(2), TimeInfoWithout}

\* the responses that carry one of the texts, and the failure of the call
Metered(texts) ==
    {Failure} \cup
    {[ok |-> TRUE, text |-> t, usage |-> u, time_info |-> ti, delta |-> 3] :
         t \in texts, u \in Usages, ti \in TimeInfos}

\* documents of one page and of two (the second by the short-tail rule)
MeterDocs == {<<650>>, <<300, 300>>}

\* the metrics over process_document and answer, the texts of the responses
\* held fixed and their usage and timing data varied
NextMetrics ==
    \/ ProcessStart(MeterDocs, FALSE) /\ UNCHANGED pipeline
    \/ PageBreakStep(Metered({Lbl(1)})) /\ UNCHANGED pipeline
    \/ SummaryStep(Metered({<<"gist">>})) /\ UNCHANGED pipeline
    \/ AnswerLookup(Metered({Lst(<<"0">>)})) /\ UNCHANGED pipeline
    \/ AnswerExpand /\ UNCHANGED pipeline
    \/ AnswerSynthesis(Metered({<<"the", " ", "answer">>})) /\ UNCHANGED pipeline

MetricsSpec == Init /\ [][NextMetrics]_vars

\* one run of main, the endpoints answering in any of the ways above
NextPipeline ==
    \/ run_phase_1(Topics, QuestionReplies) /\ UNCHANGED agent
    \/ Phase2Research(TaskOutcomes) /\ UNCHANGED agent
    \/ Phase3Outlining(OutlineReplies) /\ UNCHANGED agent
    \/ Phase4Writing(WriterReplies) /\ UNCHANGED agent
    \/ Phase5Citations /\ UNCHANGED agent

PipelineSpec == Init /\ [][NextPipeline]_vars

-----------------------------------------------------------------------------
(* Vocabulary of the properties, stated on the data and not on the code.   *)

\* total number of words of paragraphs a .. b-1 (0-based)
RECURSIVE SumWords(_, _, _)
SumWords(ps, a, b) == IF a >= b THEN 0 ELSE ps[a + 1].words + SumWords(ps, a + 1, b)

\* windowEnd: the smallest j > i whose slice [i, j) holds at least 600 words,
\* or the length of the document when it ends first
WindowEndOf(ps, i) ==
    LET full == {j \in (i + 1)..Len(ps) : SumWords(ps, i, j) >= 600}
    IN  IF full = {} THEN Len(ps) ELSE CHOOSE j \in full : \A k \in full : j <= k

\* the number written by the digits ds
RECURSIVE Pow10(_)
Pow10(n) == IF n = 0 THEN 1 ELSE 10 * Pow10(n - 1)

RECURSIVE NumberOfFrom(_, _)
NumberOfFrom(ds, k) ==
    IF k > Len(ds) THEN 0
    ELSE DigitVal(ds[k]) * Pow10(Len(ds) - k) + NumberOfFrom(ds, k + 1)

NumberOf(ds) == NumberOfFrom(ds, 1)

AllDigits(s, a, b) == a <= b /\ \A x \in a..b : IsDigit(s[x])

\* the places <k, e> of the angle-bracket integers of s: "<" at k, ">" at e
LabelPlaces(s) ==
    {pl \in (1..Len(s)) \X (1..Len(s)) :
        /\ s[pl[1]] = "<"
        /\ s[pl[2]] = ">"
        /\ AllDigits(s, pl[1] + 1, pl[2] - 1)}

HasLabel(s) == LabelPlaces(s) # {}

\* the first angle-bracket integer of s
FirstLabel(s) ==
    LET pl == CHOOSE q \in LabelPlaces(s) : \A o \in LabelPlaces(s) : q[1] <= o[1]
    IN  NumberOf(SubSeq(s, pl[1] + 1, pl[2] - 1))

\* the paragraph index at which page k starts
RECURSIVE PageStart(_, _)
PageStart(pgs, k) == IF k <= 1 THEN 0 ELSE PageStart(pgs, k - 1) + Len(pgs[k - 1])

\* pgs cut ps into non-empty contiguous slices, the first from 0, the last to the end
Partitions(pgs, ps) ==
    /\ \A k \in 1..Len(pgs) : Len(pgs[k]) > 0
    /\ PageStart(pgs, Len(pgs) + 1) = Len(ps)
    /\ Flatten(pgs) = ps
    /\ \A k \in 1..Len(pgs) :
           pgs[k] = [n \in 1..Len(pgs[k]) |-> ps[PageStart(pgs, k) + n]]

\* the running (or last) process_document call began on an agent without pages
FreshRun == \A k \in 1..Len(paragraphs) : paragraphs[k].doc = 0

\* the state right after _get_next_page_break returned
AfterBreak == pc = "summarize"

\* the same, for a call that asked the model
AfterBreakCall == AfterBreak /\ last_break.called

\* what the model answered did not name a usable break point
NoUsableLabel(r, i, j) ==
    \/ ~r.ok
    \/ ~HasLabel(r.text)
    \/ ~(i < FirstLabel(r.text) /\ FirstLabel(r.text) <= j)

-----------------------------------------------------------------------------
(* Properties.                                                             *)

\* C1: when process_document on a fresh agent has completed, the pages
\* exactly partition the paragraph sequence: non-empty contiguous slices, the
\* first starting at paragraph 0, the last ending at len(paragraphs), whose
\* concatenation is the sequence.
C1_PagesPartition ==
    (pc = "idle" /\ FreshRun) =>
        /\ Partitions(pages, paragraphs)
        /\ pause_point = Len(paragraphs)

C1_Witness ==
    /\ pc = "idle"
    /\ output.msg = "Complete"
    /\ Len(paragraphs) = 3
    /\ Len(pages) = 2
    /\ Len(pages[1]) = 1

\* C2: the pagination loop terminates: every break index is strictly greater
\* than the start index it was computed from and at most len(paragraphs), the
\* number of iterations never exceeds the number of paragraphs consumed, and
\* a loop that was entered reaches its end.
C2_LoopTerminates ==
    /\ [][pc = "paginate" =>
            /\ last_break'.ret > pause_point
            /\ last_break'.ret <= Len(paragraphs)]_vars
    /\ [][pc = "summarize" => pause_point' > pause_point]_vars
    /\ [](pc \in {"paginate", "summarize"} =>
            /\ Len(pages) - paragraphs[1].doc <= Len(paragraphs)
            /\ Len(shortened_pages) - paragraphs[1].doc <= pause_point)
    /\ (pc \in {"paginate", "summarize"} ~> pc = "idle")

C2_Witness ==
    /\ pc = "idle"
    /\ output.msg = "Complete"
    /\ Len(pages) = 3
    /\ llm_metrics.llm_calls = 0

\* C3: if the paragraphs from the start index to the end of the document
\* total fewer than 350 words, _get_next_page_break returns len(paragraphs)
\* without an inference call, and the whole remainder becomes the page.
C3_ShortTail ==
    [][(pc = "paginate" /\ SumWords(paragraphs, pause_point, Len(paragraphs)) < 350) =>
            /\ last_break'.ret = Len(paragraphs)
            /\ endpoint_calls' = endpoint_calls
            /\ llm_metrics' = llm_metrics
            /\ pages' = Append(pages, SubSeq(paragraphs, pause_point + 1, Len(paragraphs)))]_vars

C3_Witness ==
    /\ pc = "summarize"
    /\ ~last_break.called
    /\ last_break.start = 1
    /\ last_break.ret = 3

\* C4: with a window of at least 350 words, when the inference call fails,
\* or its response holds no angle-bracket integer, or the first one is not in
\* (startIndex, windowEnd], _get_next_page_break returns windowEnd.
C4_FallbackToWindowEnd ==
    (/\ AfterBreak
     /\ SumWords(paragraphs, last_break.start, WindowEndOf(paragraphs, last_break.start)) >= 350
     /\ NoUsableLabel(last_break.response, last_break.start,
                      WindowEndOf(paragraphs, last_break.start)))
        => last_break.ret = WindowEndOf(paragraphs, last_break.start)

\* the first label is out of range and a later one is in range
C4_Witness ==
    /\ AfterBreakCall
    /\ last_break.response.ok
    /\ HasLabel(last_break.response.text)
    /\ FirstLabel(last_break.response.text) = 12
    /\ last_break.ret = 2
    /\ Len(paragraphs) = 3

\* C5: with a window of at least 350 words, when the first angle-bracket
\* integer c of the response satisfies startIndex < c <= windowEnd,
\* _get_next_page_break returns c, offered as a label or not.
C5_AcceptsInRange ==
    (/\ AfterBreak
     /\ SumWords(paragraphs, last_break.start, WindowEndOf(paragraphs, last_break.start)) >= 350
     /\ ~NoUsableLabel(last_break.response, last_break.start,
                       WindowEndOf(paragraphs, last_break.start)))
        => last_break.ret = FirstLabel(last_break.response.text)

\* the accepted label <1> was not among the labels of the passage (<2> and <3>)
C5_Witness ==
    /\ AfterBreakCall
    /\ last_break.start = 0
    /\ last_break.ret = 1
    /\ Window(paragraphs, 0).labels = <<2, 3>>

\* the last process_document call ran to its end
Completed == pc = "idle" /\ output.msg = "Complete"

\* C6 (as claimed): after every completed process_document call, also one
\* made on an agent that already holds a processed document, the pages
\* partition the paragraphs of the document just processed and hold no page
\* of an earlier document (stated for the calls that fetched a paragraph).
C6_OneDocumentState == (Completed /\ paragraphs # <<>>) => Partitions(pages, paragraphs)

\* an answer call was entered by this step
AnswerEntered == pc' = "lookup" \/ output'.msg = "NotProcessed"

\* C7: answer on an agent without pages reports NotProcessed before any
\* inference call is made, and leaves metrics and Document State unchanged.
C7_NotProcessed ==
    [][(pc = "idle" /\ pages = <<>> /\ AnswerEntered) =>
            /\ output'.msg = "NotProcessed"
            /\ pc' = "idle"
            /\ endpoint_calls' = 0
            /\ llm_metrics' = llm_metrics
            /\ docState' = docState]_vars

\* answer was refused on an agent that processed a document without paragraphs
C7_Witness ==
    /\ output.msg = "NotProcessed"
    /\ title = "Title"
    /\ pages = <<>>
    /\ pc = "idle"

\* the places <k, e> of the bracketed lists of s: "[" at k, "]" at e, and
\* between them one or more digits, commas and blanks
ListPlaces(s) ==
    {pl \in (1..Len(s)) \X (1..Len(s)) :
        /\ s[pl[1]] = "["
        /\ s[pl[2]] = "]"
        /\ pl[1] + 1 <= pl[2] - 1
        /\ \A x \in (pl[1] + 1)..(pl[2] - 1) : IsDigit(s[x]) \/ s[x] \in {",", " ", "\n"}}

\* the integers listed by the first bracketed list of s: p is listed when an
\* item of the list (a stretch between two commas or list ends), blanks
\* around it aside, is a numeral of p
ListedIn(s) ==
    IF ListPlaces(s) = {} THEN {}
    ELSE LET pl == CHOOSE q \in ListPlaces(s) : \A o \in ListPlaces(s) : q[1] <= o[1]
             lo == pl[1] + 1
             hi == pl[2] - 1
             IsItem(a, b) ==
                 /\ a <= b
                 /\ \A x \in a..b : s[x] # ","
                 /\ a = lo \/ s[a - 1] = ","
                 /\ b = hi \/ s[b + 1] = ","
             Numerals == {nm \in (lo..hi) \X (lo..hi) :
                             /\ AllDigits(s, nm[1], nm[2])
                             /\ \E a \in lo..nm[1], b \in nm[2]..hi :
                                    /\ IsItem(a, b)
                                    /\ \A x \in (a..b) \ (nm[1]..nm[2]) : s[x] \in {" ", "\n"}}
         IN  {NumberOf(SubSeq(s, nm[1], nm[2])) : nm \in Numerals}

\* C8: the lookup selection is exactly the set of the integers p with
\* 0 <= p < pageCount listed in the first bracketed comma-separated list of
\* the lookup response: duplicates collapse, non-numeric items and
\* out-of-range indices are dropped one by one, later lists are ignored.
C8_LookupSelection ==
    pc = "synthesis" =>
        {page_ids[k] : k \in 1..Len(page_ids)}
            = {p \in ListedIn(intermediate_response.text) : 0 <= p /\ p < Len(pages)}

\* "[7, 01]" with fewer than 8 pages: 7 is dropped, 1 is kept
C8_Witness ==
    /\ pc = "synthesis"
    /\ ListedIn(intermediate_response.text) = {7, 1}
    /\ page_ids = <<1>>

\* C9: the expanded context has one entry per page, in page order: the full
\* text of page i when i is selected, its summary otherwise; it depends on
\* the set of selected indices only.
C9_Expansion ==
    pc = "synthesis" =>
        /\ Len(expanded_shortened_pages) = Len(pages)
        /\ \A i \in 1..Len(pages) :
               expanded_shortened_pages[i] =
                   IF \E k \in 1..Len(page_ids) : page_ids[k] = i - 1
                   THEN [gen |-> <<>>, doc |-> pages[i]]
                   ELSE shortened_pages[i]

\* pages 1 and 2 are expanded, page 1 being named twice, page 0 keeps its summary
C9_Witness ==
    /\ pc = "synthesis"
    /\ page_ids = <<1, 1, 2>>
    /\ Len(pages) = 3
    /\ expanded_shortened_pages[1] = shortened_pages[1]
    /\ expanded_shortened_pages[3].doc = pages[3]

IsTrimOf(t, s) ==
    \E a \in 1..(Len(s) + 1), b \in 0..Len(s) :
        /\ a <= b + 1
        /\ t = [k \in 1..(b - a + 1) |-> s[a + k - 1]]
        /\ \A x \in 1..(a - 1) : s[x] \in {" ", "\n"}
        /\ \A x \in (b + 1)..Len(s) : s[x] \in {" ", "\n"}
        /\ a <= b => (s[a] \notin {" ", "\n"} /\ s[b] \notin {" ", "\n"})

\* C11 (as claimed): if the synthesis call fails, answer reports a failure and
\* no answer text; if it succeeds, the answer is the response text trimmed of
\* surrounding whitespace and otherwise unchanged.
C11_SynthesisOutcome ==
    [][pc = "synthesis" =>
            IF last_response'.ok
            THEN /\ output'.msg = "FinalAnswer"
                 /\ IsTrimOf(output'.text, last_response'.text)
            ELSE /\ output'.msg = "AnswerFailed"
                 /\ output'.text = <<>>]_vars

\* C11 (amended): if the synthesis call fails or returns empty text, answer
\* reports a failure and no answer text; if it returns non-empty text, the
\* answer is that text trimmed of surrounding whitespace and otherwise unchanged.
C11_SynthesisOutcomeNonEmpty ==
    [][pc = "synthesis" =>
            IF last_response'.ok /\ last_response'.text # <<>>
            THEN /\ output'.msg = "FinalAnswer"
                 /\ IsTrimOf(output'.text, last_response'.text)
            ELSE /\ output'.msg = "AnswerFailed"
                 /\ output'.text = <<>>]_vars

\* an answer was produced from a response with whitespace around it
C11_Witness ==
    /\ pc = "idle"
    /\ output.msg = "FinalAnswer"
    /\ output.text = <<"the", " ", "answer">>
    /\ Len(last_response.text) = 5
    /\ Len(call_log) = 2

\* the pages whose entry of the expanded context is their full text
ExpandedInFull ==
    {i \in 1..Len(expanded_shortened_pages) : expanded_shortened_pages[i].doc # <<>>}

\* C12 (as claimed): however many valid page indices the lookup response
\* lists, at most 6 pages have their full text substituted into the
\* synthesis context.
C12_AtMostSixExpanded == pc = "synthesis" => Cardinality(ExpandedInFull) <= 6

\* the stages that called the endpoint in the running or last operation, in order
Kinds == [k \in 1..Len(call_log) |-> call_log[k].kind]

\* an answer call on a processed document has returned
AnswerReturned == pc = "idle" /\ output.msg \in {"FinalAnswer", "AnswerFailed", "LookupFailed"}

C14_MetricsAccumulate ==
    tally.whole =>
        /\ llm_metrics.llm_calls = tally.returned
        /\ llm_metrics.prompt_tokens = tally.prompt_tokens
        /\ llm_metrics.response_tokens = tally.completion_tokens
        /\ llm_metrics.total_tokens = tally.total_tokens
        /\ (llm_metrics.completion_time > 0 /\ llm_metrics.response_tokens > 0) =>
               llm_metrics.avg_tokens_per_second.num * llm_metrics.completion_time
                   = llm_metrics.response_tokens * llm_metrics.avg_tokens_per_second.den

\* calls reporting (10, 5) and (20, 15) tokens: 30 prompt tokens, 20 response
\* tokens, and an average of 20 over the cumulative time
C14_Witness ==
    /\ tally.whole
    /\ tally.returned = 2
    /\ llm_metrics.prompt_tokens = 30
    /\ llm_metrics.response_tokens = 20
    /\ llm_metrics.avg_tokens_per_second.num = 20
    /\ llm_metrics.avg_tokens_per_second.den = llm_metrics.completion_time
    /\ llm_metrics.completion_time = 5

\* this step invoked the endpoint
CallMade ==
    \/ pc = "idle" /\ pc' = "lookup"
    \/ pc = "paginate" /\ last_break'.called
    \/ pc = "summarize"
    \/ pc = "synthesis"

\* C15: an inference call that fails (the endpoint raises) leaves all six
\* metrics unchanged, llm_calls and completion_time included.
C15_FailedCallNotCounted ==
    [][(CallMade /\ ~last_response'.ok) => llm_metrics' = llm_metrics]_vars

\* two calls were counted, then the summarization call of the second page failed
C15_Witness ==
    /\ Len(call_log) = 3
    /\ call_log[3].kind = "summarization"
    /\ ~last_response.ok
    /\ llm_metrics.llm_calls = 2
    /\ llm_metrics.completion_time > 0
    /\ Len(shortened_pages) = 2

\* C16 (as claimed): metrics recording is pure observability: whatever usage
\* and timing data a response carries (block present, absent, or present with
\* a field missing), the caller gets the text of the response, so the
\* pagination decision and the lookup response are those the text determines.
C16_RecordingIsPureObservability ==
    /\ (pc = "lookup" /\ last_response.ok) =>
           /\ intermediate_response.is_text
           /\ intermediate_response.text = last_response.text
    /\ (AfterBreakCall /\ last_break.response.ok
          /\ ~NoUsableLabel(last_break.response, last_break.start,
                            WindowEndOf(paragraphs, last_break.start))) =>
           last_break.ret = FirstLabel(last_break.response.text)

\* this step is a process_document call that gave up before its loop
ProcessAborted == pc = "idle" /\ output'.msg \in {"NoTitle", "SourceUnavailable"}

\* C17: if the source supplies no title, or fetching the document fails,
\* process_document aborts before any page is created: no page and no summary
\* is appended, no inference call is made, and the loop is entered only with
\* a title.
C17_AbortsBeforePages ==
    /\ [][ProcessAborted =>
            /\ pc' = "idle"
            /\ pages' = pages
            /\ shortened_pages' = shortened_pages
            /\ call_log' = <<>>
            /\ llm_metrics' = llm_metrics]_vars
    /\ [][(pc = "idle" /\ title' \in {None, ""}) =>
            (pc' = "idle" /\ pages' = pages /\ shortened_pages' = shortened_pages)]_vars
    /\ [](pc \in {"paginate", "summarize"} => title \notin {None, ""})

\* a document without title was refused by an agent that holds two pages
C17_Witness ==
    /\ pc = "idle"
    /\ output.msg = "NoTitle"
    /\ title = None
    /\ Len(pages) = 2
    /\ Len(shortened_pages) = 2
    /\ call_log = <<>>
    /\ llm_metrics.llm_calls > 0

\* the text stored for a page whose summarization failed
SentinelGist ==
    [gen |-> <<"Failed", " ", "to", " ", "generate", " ", "summary", ".">>, doc |-> <<>>]

\* C18: if the summarization call for a page fails, the fixed sentinel string
\* is stored as the page's gist and process_document goes on with the next
\* page; the pages and the cursor after the step are what they are after a
\* summary that succeeded.
C18_SummaryFailureContinues ==
    [][pc = "summarize" =>
            /\ ~last_response'.ok => shortened_pages' = Append(shortened_pages, SentinelGist)
            /\ Len(shortened_pages') = Len(shortened_pages) + 1
            /\ pages' = pages
            /\ pause_point' = last_break.ret
            /\ pc' = IF last_break.ret < Len(paragraphs) THEN "paginate" ELSE "idle"]_vars

\* the summary of the first page failed and the second page was processed
C18_Witness ==
    /\ pc = "idle"
    /\ output.msg = "Complete"
    /\ Len(pages) = 2
    /\ shortened_pages[1] = SentinelGist
    /\ shortened_pages[2].gen = <<"gist">>
    /\ Len(paragraphs) = 3

\* the running or last operation is a process_document call that reached its loop
InProcess == pc \in {"paginate", "summarize"} \/ Completed

\* the summarization calls of the running or last operation, in order
SummaryCalls == SelectSeq(call_log, LAMBDA c : c.kind = "summarization")

\* C19: pages and summaries stay aligned: at the end of every iteration and
\* after process_document returns there are as many summaries as pages; the
\* summary of page k comes from one summarization call, made on exactly the
\* paragraphs of page k after the page was cut; pages and summaries already
\* stored are never changed.
C19_PagesAndSummariesAligned ==
    /\ [](pc \in {"idle", "paginate", "lookup", "synthesis"} =>
              Len(shortened_pages) = Len(pages))
    /\ [](pc = "summarize" => Len(pages) = Len(shortened_pages) + 1)
    /\ []((InProcess /\ FreshRun) =>
              /\ Len(SummaryCalls) = Len(shortened_pages)
              /\ \A k \in 1..Len(SummaryCalls) : SummaryCalls[k].page = pages[k])
    /\ [][/\ Len(pages') >= Len(pages)
          /\ \A k \in 1..Len(pages) : pages'[k] = pages[k]
          /\ Len(shortened_pages') >= Len(shortened_pages)
          /\ \A k \in 1..Len(shortened_pages) : shortened_pages'[k] = shortened_pages[k]]_vars

\* two pages, the first cut short of its window, each summarized from its own paragraphs
C19_Witness ==
    /\ Completed
    /\ Len(pages) = 2
    /\ Len(shortened_pages) = 2
    /\ Len(call_log) = 4
    /\ call_log[1].page # pages[1]
    /\ call_log[2].page = pages[1]
    /\ call_log[4].page = pages[2]

\* the paragraphs p begin the paragraphs q
IsPrefix(p, q) == Len(p) <= Len(q) /\ \A k \in 1..Len(p) : p[k] = q[k]

\* the words from the first paragraph of page k to the end of the document
WordsFromPage(k) == SumWords(paragraphs, PageStart(pages, k), Len(paragraphs))

\* the position in call_log of the summarization call of page k
RECURSIVE SummaryCallAt(_, _)
SummaryCallAt(k, from) ==
    IF call_log[from].kind = "summarization"
    THEN IF k = 1 THEN from ELSE SummaryCallAt(k - 1, from + 1)
    ELSE SummaryCallAt(k, from + 1)

\* C20: process_document issues its inference calls one after the other and
\* never twice: each page has at most one break-selection call (none under
\* the short-tail rule, one otherwise) and then exactly one summarization
\* call, both before the calls of the next page, failed calls included; the
\* calls are at most twice the pages.
C20_SequentialNoRetries ==
    /\ []((InProcess /\ FreshRun) =>
              /\ Len(call_log) <= 2 * Len(pages)
              /\ Len(SummaryCalls) = IF pc = "summarize" THEN Len(pages) - 1 ELSE Len(pages)
              /\ \A i \in 1..Len(call_log) :
                     call_log[i].kind = "pagination" =>
                         IF i = Len(call_log) THEN pc = "summarize"
                         ELSE /\ call_log[i + 1].kind = "summarization"
                              /\ IsPrefix(call_log[i + 1].page, call_log[i].page)
              /\ \A k \in 1..Len(SummaryCalls) :
                     LET at == SummaryCallAt(k, 1)
                     IN  IF WordsFromPage(k) < 350
                         THEN at = 1 \/ call_log[at - 1].kind = "summarization"
                         ELSE at > 1 /\ call_log[at - 1].kind = "pagination")
    /\ [][(pc = "paginate" \/ pc = "summarize") =>
              /\ IsPrefix(call_log, call_log')
              /\ Len(call_log') <= Len(call_log) + 1]_vars

\* three pages, the last by the short-tail rule: five calls, all failed, none repeated
C20_Witness ==
    /\ Completed
    /\ Len(pages) = 3
    /\ Kinds = <<"pagination", "summarization", "pagination", "summarization", "summarization">>
    /\ llm_metrics.llm_calls = 0

\* the labels of the passage of the window just built, as a set
OfferedLabels == {last_break.labels[n] : n \in 1..Len(last_break.labels)}

\* C21 (as claimed): a label <k> with startIndex < k < windowEnd is offered
\* exactly when the paragraphs startIndex..k-1 hold at least 280 words, and
\* the label <windowEnd> is always offered.
C21_LabelsAfterThreshold ==
    AfterBreak =>
        LET i == last_break.start
            we == WindowEndOf(paragraphs, i)
        IN  OfferedLabels = {k \in (i + 1)..(we - 1) : SumWords(paragraphs, i, k) >= 280}
                                \cup {we}

\* C21 (amended): a label <k> with startIndex < k < windowEnd is offered
\* exactly when the paragraphs startIndex..k, paragraph k itself included,
\* hold at least 280 words, so an offered interior label may mark a break
\* after fewer than 280 words; the label <windowEnd> is always offered; the
\* labels are offered in ascending order, each once.
C21_LabelsCountNextParagraph ==
    AfterBreak =>
        LET i == last_break.start
            we == WindowEndOf(paragraphs, i)
        IN  /\ OfferedLabels = {k \in (i + 1)..(we - 1) : SumWords(paragraphs, i, k + 1) >= 280}
                                   \cup {we}
            /\ \A n \in 1..(Len(last_break.labels) - 1) :
                   last_break.labels[n] < last_break.labels[n + 1]

\* <1> is offered after 100 words only, the next paragraph having 300
C21_Witness ==
    /\ AfterBreakCall
    /\ last_break.start = 0
    /\ last_break.labels = <<1, 2, 3>>
    /\ paragraphs[1].words = 100
    /\ paragraphs[2].words = 300

\* this step belongs to an answer call
AnswerStep ==
    \/ pc = "lookup"
    \/ pc = "synthesis"
    \/ pc = "idle" /\ pc' = "lookup"
    \/ pc = "idle" /\ output'.msg = "NotProcessed"

\* C22: answer never modifies the Document State: title, pages and
\* summaries are the same after every step of an answer call as before it,
\* whatever pages were chosen for expansion.
C22_AnswerKeepsDocumentState ==
    [][AnswerStep => (title' = title /\ pages' = pages /\ shortened_pages' = shortened_pages)]_vars

\* an answer was given on a context with page 0 in full, and the stored
\* summary of page 0 is still a summary
C22_Witness ==
    /\ pc = "idle"
    /\ output.msg = "FinalAnswer"
    /\ Len(call_log) = 2
    /\ call_log[2].context[1].doc # <<>>
    /\ shortened_pages[1].doc = <<>>
    /\ call_log[1].context = shortened_pages

\* C24: in every page produced by process_document, whatever the endpoint
\* answered, the paragraphs other than the last total fewer than 600 words.
C24_PageWithinLimit ==
    \A k \in 1..Len(pages) : SumWords(pages[k], 0, Len(pages[k]) - 1) < 600

\* a page of three paragraphs and more than 600 words, 400 of them before the last
C24_Witness ==
    /\ Completed
    /\ Len(pages) = 1
    /\ Len(pages[1]) = 3
    /\ SumWords(pages[1], 0, 3) > 600
    /\ SumWords(pages[1], 0, 2) = 400

-----------------------------------------------------------------------------
(* The report pipeline.                                                    *)

\* the lines that report a failed phase
FailureLines == {"No topic entered. Exiting.", "Could not generate questions. Exiting.",
                 "An error occurred (research)", "An error occurred (outline)",
                 "An error occurred (writer)"}

\* the lines that open phases 2 to 5, in the order of main
PhaseStarts == <<"Starting Phase 2", "Starting Phase 3", "Starting Phase 4",
                 "Starting Phase 5">>

IsPhaseStart(line) == \E n \in 1..Len(PhaseStarts) : PhaseStarts[n] = line

\* the phases that have started so far form an initial part of PhaseStarts
PhasesInOrder ==
    LET started == SelectSeq(console, IsPhaseStart)
    IN  /\ Len(started) <= Len(PhaseStarts)
        /\ \A n \in 1..Len(started) : started[n] = PhaseStarts[n]

\* the files each phase leaves are there when the next phase is entered
OutputsWritten ==
    /\ phase \in {"research", "outline", "writing", "citation", "done", "crashed"}
           => files["research_brief.json"].written
    /\ phase \in {"outline", "writing", "citation", "done", "crashed"}
           => /\ files["search_queries.json"].written
              /\ files["summarized_articles.json"].written
              /\ files["raw_exa_results.json"].written
    /\ phase \in {"writing", "citation", "done", "crashed"}
           => files["report_outline.json"].written
    /\ phase \in {"citation", "done", "crashed"} => files["draft_report.md"].written

\* no phase starts after a failure was printed
FailureStops ==
    \A i, j \in 1..Len(console) :
        (i < j /\ console[i] \in FailureLines) => ~IsPhaseStart(console[j])

\* C23: the phases of main run in the fixed order, each one's output file
\* written before the next starts, and once a phase has failed (no topic, no
\* questions, an exception inside research, outlining or writing) the
\* failure is printed and no later phase runs.
C23_FailedPhaseStopsPipeline == PhasesInOrder /\ OutputsWritten /\ FailureStops

\* the part of C23 that concerns order and files only
C23_OrderAndFiles == PhasesInOrder /\ OutputsWritten

-----------------------------------------------------------------------------
(* The citation pass.                                                      *)

\* what create_final_report read and what it wrote
Draft == files["draft_report.md"].data
Sources == files["summarized_articles.json"].data
FinalWritten == files["final_report.md"].written
Final == files["final_report.md"].data

\* the indices each placeholder of the draft lists, one list per placeholder
CitedLists ==
    [p \in 1..Len(FindGroups(Draft, 1)) |-> GroupInts(FindGroups(Draft, 1)[p])]

\* the distinct indices cited anywhere in the draft
Cited == UNION {{CitedLists[p][n] : n \in 1..Len(CitedLists[p])} : p \in 1..Len(CitedLists)}

\* the place of index i among the cited indices in ascending order
Rank(i) == Cardinality({j \in Cited : j <= i})

\* the number lists "[a, b]" of a text from position k on, in order
RECURSIVE NumberLists(_, _)
NumberLists(s, k) ==
    IF k > Len(s) THEN <<>>
    ELSE IF ListAt(s, k)
    THEN <<GroupInts(ListGroup(s, k))>> \o NumberLists(s, ListRunEnd(s, k + 1) + 1)
    ELSE NumberLists(s, k + 1)

\* a draft from position k on with "#" in the place of each placeholder
RECURSIVE DraftProse(_, _)
DraftProse(s, k) ==
    IF k > Len(s) THEN <<>>
    ELSE IF PlaceholderAt(s, k) THEN <<"#">> \o DraftProse(s, GroupEnd(s, k + 1) + 1)
    ELSE <<s[k]>> \o DraftProse(s, k + 1)

\* a report body from position k on with "#" in the place of each number list
RECURSIVE BodyProse(_, _)
BodyProse(s, k) ==
    IF k > Len(s) THEN <<>>
    ELSE IF ListAt(s, k) THEN <<"#">> \o BodyProse(s, ListRunEnd(s, k + 1) + 1)
    ELSE <<s[k]>> \o BodyProse(s, k + 1)

\* how often v occurs in the list l
Count(l, v) == Cardinality({n \in 1..Len(l) : l[n] = v})

\* C25: a final report written for a draft with placeholders has, in the
\* place of each placeholder and nowhere else, the ascending list of the
\* ranks of the indices that placeholder lists (the rank of an index being
\* its place among the distinct cited indices in ascending order), and a
\* reference list of as many entries as there are distinct cited indices,
\* numbered 1, 2, ... in order; a draft without placeholder is written out
\* as it is, with no reference list.
C25_OrderPreservingRenumbering ==
    FinalWritten =>
        IF FindGroups(Draft, 1) = <<>>
        THEN Final = [body |-> Draft, heading |-> FALSE, references |-> <<>>]
        ELSE LET new == NumberLists(Final.body, 1)
             IN  /\ BodyProse(Final.body, 1) = DraftProse(Draft, 1)
                 /\ Len(new) = Len(CitedLists)
                 /\ \A p \in 1..Len(new) :
                        /\ Len(new[p]) = Len(CitedLists[p])
                        /\ \A n \in 1..(Len(new[p]) - 1) : new[p][n] <= new[p][n + 1]
                        /\ \A i \in Cited : Count(new[p], Rank(i)) = Count(CitedLists[p], i)
                 /\ Final.heading
                 /\ Len(Final.references) = Cardinality(Cited)
                 /\ \A n \in 1..Len(Final.references) : Final.references[n].number = n

\* a report written for a draft citing [3, 1] and then [3], with three
\* articles or more: the placeholders became [1, 2] and [2]
C25_Witness ==
    /\ phase = "done"
    /\ FinalWritten
    /\ Draft = Placeholder(<<"3", ",", " ", "1">>) \o <<"w">> \o Placeholder(<<"3">>)
    /\ Final.body = <<"[", "1", ",", " ", "2", "]", "w", "[", "2", "]">>
    /\ Len(Final.references) = 2

\* a draft without placeholder went through the citation pass
C25_WitnessNoPlaceholder ==
    /\ phase = "done"
    /\ FinalWritten
    /\ Draft = <<"w">>
    /\ ~Final.heading

\* C26: every entry of the reference list of a final report shows the title
\* and the URL of the article its original index names, counting the
\* summarized articles from 1; an index that names no article never yields
\* a report whose entry shows some other article.
C26_ReferencesNameCitedArticles ==
    (FinalWritten /\ Final.heading) =>
        \A n \in 1..Len(Final.references) :
            LET i == CHOOSE c \in Cited : Rank(c) = n
            IN  /\ i \in 1..Len(Sources)
                /\ Final.references[n].title = Sources[i].title
                /\ Final.references[n].url = Sources[i].url

\* the same for the indices that do name an article
C26_ValidIndicesNameTheirArticle ==
    (FinalWritten /\ Final.heading) =>
        \A n \in 1..Len(Final.references) :
            LET i == CHOOSE c \in Cited : Rank(c) = n
            IN  i \in 1..Len(Sources) =>
                    /\ Final.references[n].title = Sources[i].title
                    /\ Final.references[n].url = Sources[i].url

====
